---- MODULE Spec2Model ----
(***************************************************************************)
(* ZendeskSource (backend/app/platform/sources/zendesk.py): the chunk      *)
(* generator generate_chunks, its four paginated extractors and            *)
(* _get_with_auth, as a state machine.                                     *)
(*                                                                         *)
(* The generator is an async generator: it runs only while the consumer    *)
(* awaits its next chunk (demand), and is suspended at a yield otherwise.  *)
(* Its suspension points are the yields and the await of the GET.          *)
(* The remote API is the environment: it answers each GET with a status    *)
(* and, on 2xx, a JSON body drawn from a small set.                        *)
(***************************************************************************)
EXTENDS Integers, Sequences, FiniteSets, TLC

VARIABLES
    pc,         \* position of generate_chunks: created, while, await, for, yield, done, failed, closed
    phase,      \* the extractor that is running: organizations, users, tickets, comments
    demand,     \* TRUE while the consumer awaits the next chunk (__anext__ pending)
    client,     \* httpx.AsyncClient of the run: none, open, closed
    opened,     \* number of clients opened so far
    inflight,   \* URLs of the GETs awaiting their response
    walk,       \* frame of the organization / user / ticket extractor
    cwalk,      \* frame of the comment extractor of the current ticket
    ticket_id,  \* argument of _generate_comment_chunks (ticket_chunk.entity_id)
    lastKind,   \* kind of the chunk delivered last to the consumer
    status,     \* outcome of the last GET: 0 before the first, an HTTP status, or -1 (transport failure)
    error,      \* the exception that ended the run, "" when none
    rec,        \* projection check: a remote record
    chunk,      \* projection check: the chunks built from rec
    access_token    \* the token the source was created with

vars == <<pc, phase, demand, client, opened, inflight, walk, cwalk, ticket_id,
          lastKind, status, error, rec, chunk, access_token>>

runVarsButError == <<pc, phase, demand, client, opened, inflight, walk, cwalk,
                     ticket_id, lastKind, status>>

(***************************************************************************)
(* Bounds of the remote dataset.                                           *)
(***************************************************************************)
MaxPage == 2    \* pages of one pagination chain
MaxRecs == 2    \* records of one page

(***************************************************************************)
(* Python values. A value is a tagged record, so that 0, "0", "" and None  *)
(* stay different: t is the type, i the number (or list length, or 0/1 of  *)
(* a bool), s the text.                                                    *)
(***************************************************************************)
None == [t |-> "none", i |-> 0, s |-> ""]
Num(n) == [t |-> "int", i |-> n, s |-> ""]
Str(x) == [t |-> "str", i |-> 0, s |-> x]
Bool(b) == [t |-> "bool", i |-> IF b THEN 1 ELSE 0, s |-> ""]
List(n) == [t |-> "list", i |-> n, s |-> ""]

Digits == <<"0", "1", "2", "3", "4", "5", "6", "7", "8", "9">>

RECURSIVE IntToStr(_)
IntToStr(n) ==
    IF n < 10 THEN Digits[n + 1]
    ELSE IntToStr(n \div 10) \o Digits[(n % 10) + 1]

\* variant: the value is stored as it is (no str())
ToStrIdentity(v) == v

\* str(v)
ToStr(v) ==
    CASE v.t = "str" -> v
      [] v.t = "int" -> Str(IntToStr(v.i))
      [] v.t = "none" -> Str("None")
      [] v.t = "bool" -> Str(IF v.i = 1 THEN "True" ELSE "False")
      [] OTHER -> Str("[...]")

\* bool(v)
Truthy(v) ==
    CASE v.t = "str" -> v.s # ""
      [] v.t = "int" -> v.i # 0
      [] v.t = "none" -> FALSE
      [] v.t = "bool" -> v.i = 1
      [] OTHER -> v.i > 0

\* a or b
PyOr(a, b) == IF Truthy(a) THEN a ELSE b

\* variant: d.get(k), the default is left out
GetNoDefault(d, k, default) == IF k \in DOMAIN d THEN d[k] ELSE None

\* d.get(k, default); d.get(k) is Get(d, k, None)
Get(d, k, default) == IF k \in DOMAIN d THEN d[k] ELSE default

EmptyDict == [k \in {} |-> None]

(***************************************************************************)
(* The chunks. Each extractor reads a fixed set of fields of the record;   *)
(* the fields modelled are the identity, one plain field, and every field  *)
(* that has a default or a conversion.                                     *)
(***************************************************************************)
\* str(x.get(k, "")) or None
FkStr(r, k) == PyOr(ToStr(Get(r, k, Str(""))), None)

OrgChunk(org) ==
    [kind |-> "ZendeskOrganizationChunk",
     source_name |-> Str("zendesk"),
     entity_id |-> ToStr(org["id"]),
     name |-> Get(org, "name", None),
     domain_names |-> Get(org, "domain_names", List(0)),
     group_id |-> Get(org, "group_id", None),
     shared_tickets |-> Get(org, "shared_tickets", Bool(FALSE)),
     shared_comments |-> Get(org, "shared_comments", Bool(FALSE)),
     archived |-> Bool(FALSE)]

UserChunk(user) ==
    [kind |-> "ZendeskUserChunk",
     source_name |-> Str("zendesk"),
     entity_id |-> ToStr(user["id"]),
     name |-> Get(user, "name", None),
     suspended |-> Get(user, "suspended", Bool(FALSE)),
     archived |-> Bool(FALSE)]

TicketChunk(ticket) ==
    [kind |-> "ZendeskTicketChunk",
     source_name |-> Str("zendesk"),
     entity_id |-> ToStr(ticket["id"]),
     subject |-> Get(ticket, "subject", None),
     tags |-> Get(ticket, "tags", List(0)),
     requester_id |-> FkStr(ticket, "requester_id"),
     assignee_id |-> FkStr(ticket, "assignee_id"),
     organization_id |-> FkStr(ticket, "organization_id"),
     group_id |-> FkStr(ticket, "group_id"),
     custom_fields |-> Get(ticket, "custom_fields", List(0)),
     archived |-> Bool(FALSE)]

\* variant: the comment's own identifier is stored as its ticket_id
CommentChunkOwnId(comment, tid) ==
    [kind |-> "ZendeskCommentChunk",
     source_name |-> Str("zendesk"),
     entity_id |-> ToStr(comment["id"]),
     ticket_id |-> ToStr(comment["id"]),
     author_id |-> FkStr(comment, "author_id"),
     plain_body |-> Get(comment, "plain_body", None),
     public |-> Get(comment, "public", Bool(FALSE)),
     attachments |-> Get(comment, "attachments", List(0)),
     archived |-> Bool(FALSE)]

CommentChunk(comment, tid) ==
    [kind |-> "ZendeskCommentChunk",
     source_name |-> Str("zendesk"),
     entity_id |-> ToStr(comment["id"]),
     ticket_id |-> ToStr(tid),
     author_id |-> FkStr(comment, "author_id"),
     plain_body |-> Get(comment, "plain_body", None),
     public |-> Get(comment, "public", Bool(FALSE)),
     attachments |-> Get(comment, "attachments", List(0)),
     archived |-> Bool(FALSE)]

\* the chunk an extractor builds from record r
BuildChunk(ph, r, tid) ==
    CASE ph = "organizations" -> OrgChunk(r)
      [] ph = "users" -> UserChunk(r)
      [] ph = "tickets" -> TicketChunk(r)
      [] OTHER -> CommentChunk(r, tid)

(***************************************************************************)
(* URLs.                                                                   *)
(***************************************************************************)
ApiBase == "https://your_subdomain.zendesk.com/api/v2/"

OrgUrl == ApiBase \o "organizations.json"
UserUrl == ApiBase \o "users.json"
TicketUrl == ApiBase \o "tickets.json"
CommentUrl(tid) == ApiBase \o "tickets/" \o ToStr(tid).s \o "/comments.json"

\* first URL of an extractor
FirstUrl(ph, tid) ==
    CASE ph = "organizations" -> OrgUrl
      [] ph = "users" -> UserUrl
      [] ph = "tickets" -> TicketUrl
      [] OTHER -> CommentUrl(tid)

\* the key of the record array in a page of an extractor
ArrayKey(ph) == ph

(***************************************************************************)
(* The remote API. A pagination chain has pages 1..MaxPage; page 1 is at   *)
(* the extractor's first URL, and a page links only to a later page of     *)
(* its chain. The k-th record of a chain has identifier base + k, when it  *)
(* has one.                                                                *)
(***************************************************************************)
PageUrl(first, p) == IF p = 1 THEN first ELSE first \o "?page=" \o IntToStr(p)

PageOf(first, u) == CHOOSE p \in 1..MaxPage : PageUrl(first, p) = u

Record(hasId, n) == IF hasId THEN ("id" :> Num(n)) ELSE EmptyDict

RecordSeqs(base, n0) ==
    UNION { { [j \in 1..n |-> Record(h[j], base + n0 + j)] : h \in [1..n -> BOOLEAN] }
            : n \in 0..MaxRecs }

\* the JSON bodies the remote may answer page p of a chain with
Bodies(key, first, p, base, n0) ==
    LET arrs == {EmptyDict} \cup { (key :> rs) : rs \in RecordSeqs(base, n0) }
        links == { Str(PageUrl(first, q)) : q \in (p + 1)..MaxPage }
        nexts == {EmptyDict} \cup { ("next_page" :> v) : v \in {None} \cup links }
    IN  { a @@ n : a \in arrs, n \in nexts }

\* the body of a response that carries an error status
ErrorBody == EmptyDict

Statuses == {200, 401, 403, 500}

TransportFailure == -1

(***************************************************************************)
(* Frames of the extractors (the locals of one pagination walk), with the  *)
(* history of the walk: the GETs it issued, the chunks it yielded, and the *)
(* pages and records the remote served it; started counts the comment      *)
(* walks the ticket extractor's consumer loop has started for its chunks.  *)
(* client is the client the extractor was given, the n-th one opened, and  *)
(* auth the Authorization header of each GET.                              *)
(***************************************************************************)
NewWalk(u) ==
    [url |-> Str(u), data |-> EmptyDict, idx |-> 0,
     requests |-> <<>>, yielded |-> <<>>, served |-> <<>>, fetched |-> {},
     started |-> 0, client |-> 0, auth |-> <<>>]

NoWalk ==
    [url |-> None, data |-> EmptyDict, idx |-> 0,
     requests |-> <<>>, yielded |-> <<>>, served |-> <<>>, fetched |-> {},
     started |-> 0, client |-> 0, auth |-> <<>>]

\* variant: an extractor opens a client of its own (async with in each)
ExtractorClientOwn(c) == c + 1

\* the client an extractor issues its GETs on: the one it is passed
ExtractorClient(c) == c

\* an extractor is called with the client and its first URL
Call(c, u) == [NewWalk(u) EXCEPT !.client = ExtractorClient(c)]

Active == IF phase = "comments" THEN cwalk ELSE walk

SetActive(f) ==
    IF phase = "comments"
    THEN cwalk' = f /\ walk' = walk
    ELSE walk' = f /\ cwalk' = cwalk

\* data.get(<array key>, [])
Records(f, ph) == Get(f.data, ArrayKey(ph), <<>>)

\* variant: the next URL is computed from a page counter
NextUrlComputed(f) == Str(PageUrl(f.requests[1], Len(f.requests) + 1))

\* data.get("next_page")
NextUrl(f) == Get(f.data, "next_page", None)

\* variant: if url: (only the first page is fetched)
LoopingOnce(f) == Truthy(f.url) /\ f.requests = <<>>

\* while url:
Looping(f) == Truthy(f.url)

\* variant: only 5xx statuses raise
RaisesForStatusServerOnly(st) == st >= 500

\* response.raise_for_status()
RaisesForStatus(st) == st \notin 200..299

\* variant: users are extracted before organizations
ExtractorOrderUsersFirst == <<"users", "organizations", "tickets">>

\* the order of the extractors in generate_chunks
ExtractorOrder == <<"organizations", "users", "tickets">>

\* variant: an eager producer that does not wait for the consumer
RunningEager == TRUE

\* the async generator runs only while a consumer awaits its next item
Running == demand

\* variant: the client is never closed (no async with)
ReleaseLeak(c) == c

\* __aexit__ of the client on an exception or at the end of the block
Release(c) == "closed"

\* no chunk built yet
NoChunk == [kind |-> ""]

\* create(access_token): the tokens a source is created with
Tokens == {"tokenA", "tokenB"}

\* variant: the header carries the token without the scheme
AuthHeaderBare(tok) == tok

\* headers = {"Authorization": f"Bearer {self.access_token}"}
AuthHeader(tok) == "Bearer " \o tok

Init ==
    /\ pc = "created"
    /\ phase = ""
    /\ demand = FALSE
    /\ client = "none"
    /\ opened = 0
    /\ inflight = {}
    /\ walk = NoWalk
    /\ cwalk = NoWalk
    /\ ticket_id = None
    /\ lastKind = ""
    /\ status = 0
    /\ error = ""
    /\ rec = EmptyDict
    /\ chunk = NoChunk
    /\ access_token \in Tokens

(***************************************************************************)
(* The consumer.                                                           *)
(***************************************************************************)
\* the consumer awaits the next chunk (async for / __anext__)
Pull ==
    /\ pc \in {"created", "yield"}
    /\ ~demand
    /\ demand' = TRUE
    /\ UNCHANGED <<pc, phase, client, opened, inflight, walk, cwalk, ticket_id,
                   lastKind, status, error, rec, chunk, access_token>>

\* the consumer abandons the sequence and the generator is closed (aclose):
\* GeneratorExit is raised at the yield and leaves the async with block
Aclose ==
    /\ pc \in {"created", "yield"}
    /\ ~demand
    /\ pc' = "closed"
    /\ client' = IF client = "open" THEN Release(client) ELSE client
    /\ UNCHANGED <<phase, demand, opened, inflight, walk, cwalk, ticket_id,
                   lastKind, status, error, rec, chunk, access_token>>

(***************************************************************************)
(* generate_chunks and the extractors.                                     *)
(***************************************************************************)
\* an exception leaves the extractor, generate_chunks and the async with
Raise(e) ==
    /\ pc' = "failed"
    /\ error' = e
    /\ client' = Release(client)
    /\ demand' = FALSE

\* async with httpx.AsyncClient() as client, and the first extractor starts
Enter ==
    /\ pc = "created"
    /\ Running
    /\ client' = "open"
    /\ opened' = opened + 1
    /\ phase' = ExtractorOrder[1]
    /\ walk' = Call(opened', FirstUrl(ExtractorOrder[1], None))
    /\ pc' = "while"
    /\ UNCHANGED <<demand, inflight, cwalk, ticket_id, lastKind, status, error,
                   rec, chunk, access_token>>

\* while url: ... client.get(url, headers=headers)
Request ==
    /\ pc = "while"
    /\ Running
    /\ Looping(Active)
    /\ SetActive([Active EXCEPT !.requests = Append(@, Active.url.s),
                                !.auth = Append(@, AuthHeader(access_token))])
    /\ inflight' = inflight \cup {Active.url.s}
    /\ pc' = "await"
    /\ UNCHANGED <<phase, demand, client, opened, ticket_id, lastKind, status,
                   error, rec, chunk, access_token>>

\* the GET fails at transport level: client.get raises
TransportError ==
    /\ pc = "await"
    /\ \E u \in inflight :
        /\ inflight' = inflight \ {u}
        /\ status' = TransportFailure
        /\ Raise("ConnectError")
    /\ UNCHANGED <<phase, opened, walk, cwalk, ticket_id, lastKind, rec, chunk, access_token>>

\* the task is cancelled while it awaits the GET: CancelledError is raised
\* at the await
Cancel ==
    /\ pc = "await"
    /\ inflight' = {}
    /\ Raise("CancelledError")
    /\ UNCHANGED <<phase, opened, walk, cwalk, ticket_id, lastKind, status, rec, chunk, access_token>>

\* the response arrives: raise_for_status, then response.json()
Respond ==
    /\ pc = "await"
    /\ \E u \in inflight, st \in Statuses :
        LET first == FirstUrl(phase, ticket_id)
            base == IF phase = "comments" THEN 10 * Len(walk.yielded) ELSE 0
        IN
        /\ inflight' = inflight \ {u}
        /\ status' = st
        /\ IF RaisesForStatus(st)
           THEN /\ Raise("HTTPStatusError")
                /\ UNCHANGED <<walk, cwalk>>
           ELSE /\ \E body \in IF st = 200
                              THEN Bodies(ArrayKey(phase), first, PageOf(first, u),
                                          base, Len(Active.served))
                              ELSE {ErrorBody} :
                     SetActive([Active EXCEPT
                         !.data = body,
                         !.idx = 1,
                         !.served = @ \o Get(body, ArrayKey(phase), <<>>),
                         !.fetched = @ \cup {u}])
                /\ pc' = "for"
                /\ UNCHANGED <<demand, client, error>>
    /\ UNCHANGED <<phase, opened, ticket_id, lastKind, rec, chunk, access_token>>

\* variant: the loop stops one record early
HasRecordOffByOne(f, ph) == f.idx < Len(Records(f, ph))

\* the for loop has a record left
HasRecord(f, ph) == f.idx <= Len(Records(f, ph))

\* variant: data[key] instead of data.get(key, []): a page without the
\* record array raises KeyError
KeyErrorAtStrict(f, ph) ==
    \/ ArrayKey(ph) \notin DOMAIN f.data
    \/ (f.idx <= Len(Records(f, ph)) /\ "id" \notin DOMAIN Records(f, ph)[f.idx])

\* building the chunk raises KeyError: record["id"] of a record without id
KeyErrorAt(f, ph) == HasRecord(f, ph) /\ "id" \notin DOMAIN Records(f, ph)[f.idx]

\* for record in data.get(key, []): yield Chunk(...)
Yield ==
    /\ pc = "for"
    /\ HasRecord(Active, phase)
    /\ ~KeyErrorAt(Active, phase)
    /\ LET c == BuildChunk(phase, Records(Active, phase)[Active.idx], ticket_id)
       IN  /\ SetActive([Active EXCEPT !.yielded = Append(@, c)])
           /\ lastKind' = c.kind
    /\ pc' = "yield"
    /\ demand' = FALSE
    /\ UNCHANGED <<phase, client, opened, inflight, ticket_id, status, error,
                   rec, chunk, access_token>>

\* variant: a record without id is skipped (try/except: continue)
KeyErrorSkips ==
    /\ pc = "for"
    /\ KeyErrorAt(Active, phase)
    /\ SetActive([Active EXCEPT !.idx = @ + 1])
    /\ UNCHANGED <<pc, phase, demand, client, opened, inflight, ticket_id,
                   lastKind, status, error, rec, chunk, access_token>>

\* record["id"] raises KeyError
KeyError ==
    /\ pc = "for"
    /\ KeyErrorAt(Active, phase)
    /\ Raise("KeyError")
    /\ UNCHANGED <<phase, opened, inflight, walk, cwalk, ticket_id, lastKind,
                   status, rec, chunk, access_token>>

\* the for loop is exhausted: url = data.get("next_page")
NextPage ==
    /\ pc = "for"
    /\ ~HasRecord(Active, phase)
    /\ SetActive([Active EXCEPT !.url = NextUrl(Active)])
    /\ pc' = "while"
    /\ UNCHANGED <<phase, demand, client, opened, inflight, ticket_id, lastKind,
                   status, error, rec, chunk, access_token>>

\* variant: the ticket extractor's loop body only yields (no comment walk)
ResumeSkippingComments ==
    /\ pc = "yield"
    /\ Running
    /\ phase \in {"organizations", "users", "tickets", "comments"}
    /\ SetActive([Active EXCEPT !.idx = @ + 1])
    /\ pc' = "for"
    /\ UNCHANGED <<phase, demand, client, opened, inflight, ticket_id, lastKind,
                   status, error, rec, chunk, access_token>>

\* the consumer asked for the next chunk: an organization or user extractor
\* goes on with its for loop
Resume ==
    /\ pc = "yield"
    /\ Running
    /\ phase \in {"organizations", "users", "comments"}
    /\ SetActive([Active EXCEPT !.idx = @ + 1])
    /\ pc' = "for"
    /\ UNCHANGED <<phase, demand, client, opened, inflight, ticket_id, lastKind,
                   status, error, rec, chunk, access_token>>

\* the consumer asked for the next chunk after a ticket chunk:
\* _generate_comment_chunks(client, ticket_chunk.entity_id) starts
StartComments ==
    /\ pc = "yield"
    /\ Running
    /\ phase = "tickets"
    /\ LET ticket_chunk == walk.yielded[Len(walk.yielded)]
       IN  /\ ticket_id' = ticket_chunk.entity_id
           /\ cwalk' = Call(opened, CommentUrl(ticket_chunk.entity_id))
    /\ walk' = [walk EXCEPT !.started = @ + 1]
    /\ phase' = "comments"
    /\ pc' = "while"
    /\ UNCHANGED <<demand, client, opened, inflight, lastKind, status, error,
                   rec, chunk, access_token>>

\* variant: the extractor that ended is started again
FollowingRepeat(ph) == ph

\* the extractor that follows the organization and the user extractor
Following(ph) == IF ph = ExtractorOrder[1] THEN ExtractorOrder[2] ELSE ExtractorOrder[3]

\* the organization or user extractor is exhausted: the next one starts
NextExtractor ==
    /\ pc = "while"
    /\ Running
    /\ ~Looping(Active)
    /\ phase \in {ExtractorOrder[1], ExtractorOrder[2]}
    /\ phase' = Following(phase)
    /\ walk' = Call(opened, FirstUrl(Following(phase), None))
    /\ UNCHANGED <<pc, demand, client, opened, inflight, cwalk, ticket_id,
                   lastKind, status, error, rec, chunk, access_token>>

\* the comment extractor is exhausted: the ticket extractor goes on
CommentsDone ==
    /\ pc = "while"
    /\ Running
    /\ ~Looping(Active)
    /\ phase = "comments"
    /\ phase' = "tickets"
    /\ walk' = [walk EXCEPT !.idx = @ + 1]
    /\ cwalk' = NoWalk
    /\ pc' = "for"
    /\ UNCHANGED <<demand, client, opened, inflight, ticket_id, lastKind,
                   status, error, rec, chunk, access_token>>

\* the ticket extractor is exhausted: the async with block ends and the
\* consumer gets StopAsyncIteration
Finish ==
    /\ pc = "while"
    /\ Running
    /\ ~Looping(Active)
    /\ phase = ExtractorOrder[3]
    /\ pc' = "done"
    /\ client' = Release(client)
    /\ demand' = FALSE
    /\ UNCHANGED <<phase, opened, inflight, walk, cwalk, ticket_id, lastKind,
                   status, error, rec, chunk, access_token>>

Next ==
    \/ Pull
    \/ Aclose
    \/ Enter
    \/ Request
    \/ TransportError
    \/ Cancel
    \/ Respond
    \/ Yield
    \/ KeyError
    \/ NextPage
    \/ Resume
    \/ StartComments
    \/ NextExtractor
    \/ CommentsDone
    \/ Finish

Spec == Init /\ [][Next]_vars

\* the steps of the generator: the event loop runs it whenever it is ready
Step ==
    \/ Enter
    \/ Request
    \/ Yield
    \/ KeyError
    \/ NextPage
    \/ Resume
    \/ StartComments
    \/ NextExtractor
    \/ CommentsDone
    \/ Finish

\* a source created with one token (the token plays no part in the
\* control flow)
LiveInit == Init /\ access_token = "tokenA"

\* a consumer that keeps pulling (async for), a generator that runs when it
\* is ready, and a transport that ends every GET by a response or a failure
LiveSpec ==
    /\ LiveInit
    /\ [][Next]_vars
    /\ WF_vars(Pull)
    /\ WF_vars(Step)
    /\ WF_vars(Respond \/ TransportError)

(***************************************************************************)
(* The projections alone: each extractor's chunk constructor applied to a  *)
(* record of the remote payload, whose fields are each absent or hold one  *)
(* of a few values (null, zero, a number; an empty or non-empty list; a    *)
(* flag).                                                                  *)
(***************************************************************************)
ForeignKeys == {"requester_id", "assignee_id", "organization_id", "group_id", "author_id"}
ListFields == {"domain_names", "tags", "custom_fields", "attachments"}
FlagFields == {"shared_tickets", "shared_comments", "suspended", "public"}

FieldValues(k) ==
    CASE k = "id" -> {Num(7), Num(42)}
      [] k \in ForeignKeys -> {None, Num(0), Num(7)}
      [] k \in ListFields -> {List(0), List(2)}
      [] k \in FlagFields -> {Bool(TRUE), Bool(FALSE)}
      [] OTHER -> {Str("text")}

RECURSIVE DictsOver(_)
DictsOver(fields) ==
    IF fields = {} THEN {EmptyDict}
    ELSE LET k == CHOOSE x \in fields : TRUE
         IN  { a @@ b : a \in {EmptyDict} \cup { (k :> v) : v \in FieldValues(k) },
                        b \in DictsOver(fields \ {k}) }

OrgRecords ==
    DictsOver({"id", "name", "domain_names", "group_id", "shared_tickets", "shared_comments"})
UserRecords == DictsOver({"id", "name", "suspended"})
TicketRecords ==
    DictsOver({"id", "subject", "tags", "requester_id", "assignee_id", "organization_id",
               "group_id", "custom_fields"})
CommentRecords == DictsOver({"id", "author_id", "plain_body", "public", "attachments"})

ProjInit ==
    /\ pc = "created"
    /\ phase = ""
    /\ demand = FALSE
    /\ client = "none"
    /\ opened = 0
    /\ inflight = {}
    /\ walk = NoWalk
    /\ cwalk = NoWalk
    /\ ticket_id = None
    /\ lastKind = ""
    /\ status = 0
    /\ error = ""
    /\ rec \in OrgRecords \cup UserRecords \cup TicketRecords \cup CommentRecords
    /\ chunk = NoChunk
    /\ access_token = "tokenA"

\* one extractor builds its chunk from rec, or raises KeyError on rec["id"]
Project(ph, tid) ==
    /\ chunk = NoChunk
    /\ error = ""
    /\ IF "id" \in DOMAIN rec
       THEN chunk' = BuildChunk(ph, rec, tid) /\ error' = error
       ELSE chunk' = chunk /\ error' = "KeyError"
    /\ UNCHANGED <<runVarsButError, rec, access_token>>

ProjectOrganization == Project("organizations", None)
ProjectUser == Project("users", None)
ProjectTicket == Project("tickets", None)
ProjectComment == \E tid \in {Str("1"), Str("42")} : Project("comments", tid)

ProjNext ==
    \/ ProjectOrganization
    \/ ProjectUser
    \/ ProjectTicket
    \/ ProjectComment

ProjSpec == ProjInit /\ [][ProjNext]_vars

(***************************************************************************)
(* Properties.                                                             *)
(***************************************************************************)
OrgKind == "ZendeskOrganizationChunk"
UserKind == "ZendeskUserChunk"
TicketKind == "ZendeskTicketChunk"
CommentKind == "ZendeskCommentChunk"

\* a step that delivers a chunk to the consumer
Emits == pc = "for" /\ pc' = "yield"

\* a step in which frame f (g after the step) issues a GET
Issues(f, g) == Len(g.requests) > Len(f.requests)

\* frame f has fetched its last page and yielded a chunk for each record served
Exhausted(f) ==
    /\ f.fetched # {}
    /\ Get(f.data, "next_page", None) = None
    /\ Len(f.yielded) = Len(f.served)

\* C1: the chunks are delivered in the order organizations, users, then
\* each ticket followed by its comments: an organization chunk follows only
\* organization chunks, a user chunk only organization and user chunks, a
\* comment chunk only a ticket or comment chunk; and a ticket's comment
\* extractor ends, and the next ticket is taken up, only when a chunk was
\* delivered for every comment of the ticket, as an extractor gives way to
\* the next only when a chunk was delivered for each of its records.
C1_ChunkOrder ==
    [][ /\ Emits =>
            /\ lastKind' = Active'.yielded[Len(Active'.yielded)].kind
            /\ lastKind' = OrgKind => lastKind \in {"", OrgKind}
            /\ lastKind' = UserKind => lastKind \in {"", OrgKind, UserKind}
            /\ lastKind' = CommentKind => lastKind \in {TicketKind, CommentKind}
            /\ lastKind' = TicketKind => phase = "tickets"
        /\ (phase = "comments" /\ phase' # phase) =>
            /\ phase' = "tickets"
            /\ Len(cwalk.yielded) = Len(cwalk.served)
            /\ ~Truthy(cwalk.url)
        /\ (phase \in {"organizations", "users"} /\ phase' # phase) =>
            /\ Len(walk.yielded) = Len(walk.served)
            /\ ~Truthy(walk.url)
        /\ (pc # "done" /\ pc' = "done") =>
            /\ phase = "tickets"
            /\ Len(walk.yielded) = Len(walk.served)
      ]_vars

\* the run ended normally after a second ticket and its comment
C1_Witness ==
    /\ pc = "done"
    /\ lastKind = CommentKind
    /\ Len(walk.yielded) >= 2

\* C2: every comment chunk of the comment extractor in progress carries
\* the entity_id of the ticket chunk delivered last, and a comment chunk
\* is delivered only after a ticket chunk.
C2_CommentsCarryTicketId ==
    /\ \A i \in 1..Len(cwalk.yielded) :
        /\ cwalk.yielded[i].kind = CommentKind
        /\ walk.yielded # <<>>
        /\ walk.yielded[Len(walk.yielded)].kind = TicketKind
        /\ cwalk.yielded[i].ticket_id = walk.yielded[Len(walk.yielded)].entity_id
    /\ lastKind = CommentKind =>
        (phase \in {"tickets", "comments"} /\ walk.yielded # <<>>)

\* the second ticket has two comment chunks delivered
C2_Witness ==
    /\ Len(walk.yielded) = 2
    /\ Len(cwalk.yielded) = 2
    /\ cwalk.yielded[2].ticket_id = Str("2")

\* the last GET failed: a transport failure or a non-2xx status
GetFailed == status = TransportFailure \/ (status # 0 /\ status \notin 200..299)

\* C3: when a GET fails (non-2xx status or transport failure) the run is
\* failed in that very step, and from then on no chunk is delivered, no
\* GET is issued (no retry, no next page, no later extractor) and no
\* request is outstanding.
C3_FailureAborts ==
    [][ GetFailed' =>
            /\ pc' = "failed"
            /\ error' \in {"HTTPStatusError", "ConnectError"}
            /\ inflight' = {}
            /\ ~Emits
            /\ lastKind' = lastKind
            /\ walk'.yielded = walk.yielded /\ cwalk'.yielded = cwalk.yielded
            /\ walk'.requests = walk.requests /\ cwalk'.requests = cwalk.requests
            /\ walk'.url = walk.url /\ cwalk'.url = cwalk.url
            /\ phase' = phase
      ]_vars

\* a 403 on a comments page after chunks were delivered
C3_Witness ==
    /\ pc = "failed"
    /\ status = 403
    /\ phase = "comments"
    /\ cwalk.yielded # <<>>
    /\ Len(cwalk.requests) = 2

\* C4: the client is closed whenever the run has ended (normally, by a
\* failure in any phase, or by closing the generator), and a GET is issued
\* only on the open client.
C4_ClientReleased ==
    /\ [](pc \in {"done", "failed", "closed"} => client # "open")
    /\ [](pc \in {"done", "failed"} => client = "closed")
    /\ [](inflight # {} => client = "open")
    /\ [][(Issues(walk, walk') \/ Issues(cwalk, cwalk')) =>
            (client = "open" /\ client' = "open")]_vars

\* a request failed in the comment phase and the client is closed
C4_Witness ==
    /\ pc = "failed"
    /\ error = "HTTPStatusError"
    /\ phase = "comments"
    /\ client = "closed"
    /\ opened = 1

\* C5: a foreign key that is absent or 0 in the record is None in the chunk
\* (requester_id, assignee_id, organization_id, group_id of a ticket chunk,
\* author_id of a comment chunk).
C5_AbsentOrZeroIsNone ==
    /\ chunk.kind = TicketKind =>
        \A k \in {"requester_id", "assignee_id", "organization_id", "group_id"} :
            (k \notin DOMAIN rec \/ rec[k] = Num(0)) => chunk[k] = None
    /\ chunk.kind = CommentKind =>
        (("author_id" \notin DOMAIN rec \/ rec["author_id"] = Num(0))
            => chunk.author_id = None)

\* body d links to a next page
HasLink(d) == "next_page" \in DOMAIN d /\ d["next_page"] # None

\* C6: a walk issues a further GET only when the page it fetched last has a
\* next_page that is not null; after a page without one the loop is left,
\* with a chunk delivered for each record served.
C6_NoNextPageEndsWalk ==
    /\ [][ /\ (Issues(walk, walk') /\ walk.requests # <<>>) => HasLink(walk.data)
           /\ (Issues(cwalk, cwalk') /\ cwalk.requests # <<>>) => HasLink(cwalk.data)
         ]_vars
    /\ []((pc = "while" /\ Active.fetched # {} /\ ~HasLink(Active.data)) =>
            (~Truthy(Active.url) /\ Len(Active.yielded) = Len(Active.served)))

\* the user walk left its loop after a second page without a next_page field
C6_Witness ==
    /\ pc = "while"
    /\ phase = "users"
    /\ Len(walk.requests) = 2
    /\ "next_page" \notin DOMAIN walk.data
    /\ ~Truthy(walk.url)
    /\ Len(walk.yielded) = 3

\* the chunks of frame f are those of the first records served, in order
YieldedInOrder(f, ph, tid) ==
    /\ Len(f.yielded) <= Len(f.served)
    /\ \A i \in 1..Len(f.yielded) : f.yielded[i] = BuildChunk(ph, f.served[i], tid)

\* frame f issued one GET per page and never the same URL twice
OneGetPerPage(f) ==
    /\ Len(f.requests) = Cardinality(f.fetched)
    /\ \A i, j \in 1..Len(f.requests) : f.requests[i] = f.requests[j] => i = j

\* C7: a walk yields the chunks of the records served, in page order and
\* in-page order; when it leaves its loop it has issued exactly one GET per
\* page of the chain and yielded exactly one chunk per record.
C7_OneChunkPerRecord ==
    /\ YieldedInOrder(walk, IF phase = "comments" THEN "tickets" ELSE phase, None)
    /\ YieldedInOrder(cwalk, "comments", ticket_id)
    /\ (pc = "while" /\ ~Truthy(Active.url)) =>
        (OneGetPerPage(Active) /\ Len(Active.yielded) = Len(Active.served))
    /\ pc = "done" =>
        (OneGetPerPage(walk) /\ Len(walk.yielded) = Len(walk.served))

\* a ticket's comment walk ended after 2 pages and 3 comment chunks
C7_Witness ==
    /\ pc = "while"
    /\ phase = "comments"
    /\ ~Truthy(cwalk.url)
    /\ Len(cwalk.requests) = 2
    /\ Len(cwalk.yielded) = 3
    /\ \A i \in 1..3 : cwalk.yielded[i].ticket_id = ticket_id

\* the page of the running extractor lacks its record array
MissingArray == Active.fetched # {} /\ ArrayKey(phase) \notin DOMAIN Active.data

\* C8: a page without the record array yields no chunk and raises nothing:
\* the loop goes on to the while test with the page's next_page, and then
\* requests that link if there is one and ends the walk if there is none.
C8_MissingArrayIsEmptyPage ==
    [][ /\ (pc = "for" /\ MissingArray) =>
            /\ pc' = "while"
            /\ error' = ""
            /\ phase' = phase
            /\ Active'.url = Get(Active.data, "next_page", None)
            /\ Active'.yielded = Active.yielded
        /\ (pc = "while" /\ MissingArray /\ pc' # pc) =>
            IF HasLink(Active.data)
            THEN /\ pc' = "await"
                 /\ inflight' = {Active.data["next_page"].s}
                 /\ phase' = phase
            ELSE /\ ~Issues(walk, walk') /\ ~Issues(cwalk, cwalk')
                 /\ error' = ""
      ]_vars

\* the first tickets page had no record array and the walk goes on to its link
C8_Witness ==
    /\ pc = "await"
    /\ phase = "tickets"
    /\ MissingArray
    /\ Len(walk.requests) = 2
    /\ error = ""

\* the URLs of the pages of an extractor's chain
ChainUrls(ph, tid) == { PageUrl(FirstUrl(ph, tid), p) : p \in 1..MaxPage }

\* C9: at most one GET is outstanding, every GET is one of the running
\* extractor; the extractors start in the order organizations, users,
\* tickets, and the organization and the user extractor give way only after
\* their last page was fetched and a chunk delivered for each record.
C9_SequentialPhases ==
    /\ [](Cardinality(inflight) <= 1)
    /\ [](\A u \in inflight : u \in ChainUrls(phase, ticket_id))
    /\ [][ /\ (Issues(walk, walk') \/ Issues(cwalk, cwalk')) => inflight = {}
           /\ phase' # phase =>
                /\ <<phase, phase'>> \in
                      { <<"", "organizations">>, <<"organizations", "users">>,
                        <<"users", "tickets">>, <<"tickets", "comments">>,
                        <<"comments", "tickets">> }
                /\ inflight = {} /\ inflight' = {}
                /\ phase \in {"organizations", "users"} => Exhausted(walk)
         ]_vars

\* the first users request is outstanding after organization chunks
C9_Witness ==
    /\ phase = "users"
    /\ inflight = {UserUrl}
    /\ lastKind = OrgKind

\* C10: a GET is issued only while the consumer awaits a chunk, and only
\* when the running walk has yielded a chunk for every record it was served;
\* while the consumer does not pull, no GET is issued or outstanding and no
\* extractor starts.
C10_LazyFetch ==
    /\ [](inflight # {} => demand)
    /\ [][ /\ (Issues(walk, walk') \/ Issues(cwalk, cwalk')) =>
                /\ demand /\ demand'
                /\ Len(Active.yielded) = Len(Active.served)
           /\ ~demand =>
                /\ walk'.requests = walk.requests
                /\ cwalk'.requests = cwalk.requests
                /\ inflight' = inflight
                /\ phase' = phase
         ]_vars

\* the consumer stopped after the first organization chunk: the second
\* organizations page was never requested and no later extractor ran
C10_Witness ==
    /\ pc = "closed"
    /\ phase = "organizations"
    /\ Len(walk.yielded) = 1
    /\ Len(walk.served) = 1
    /\ HasLink(walk.data)
    /\ Len(walk.requests) = 1
    /\ inflight = {}

\* the ticket chunk delivered last
LastTicket == walk.yielded[Len(walk.yielded)]

\* a comment walk starts in this step
StartsCommentWalk == cwalk = NoWalk /\ cwalk' # NoWalk

\* C11: a comment walk is started for every ticket chunk and only for a
\* ticket chunk: it starts right after the chunk was delivered, at the
\* comments URL of that chunk's entity_id, and it has ended when the next
\* ticket chunk is delivered; so the number of walks started is the number
\* of ticket chunks delivered (less the one just delivered, whose walk
\* starts with the next pull), and a walk stays with one ticket.
C11_OneCommentWalkPerTicket ==
    /\ [](phase = "comments" =>
            /\ walk.started = Len(walk.yielded)
            /\ LastTicket.kind = TicketKind
            /\ ticket_id = LastTicket.entity_id
            /\ cwalk.requests # <<>> =>
                cwalk.requests[1] =
                    ApiBase \o "tickets/" \o LastTicket.entity_id.s \o "/comments.json")
    /\ [](phase = "tickets" =>
            /\ cwalk = NoWalk
            /\ walk.started =
                  Len(walk.yielded) - (IF pc \in {"yield", "closed"} THEN 1 ELSE 0))
    /\ [](phase \in {"", "organizations", "users"} =>
            (walk.started = 0 /\ cwalk = NoWalk))
    /\ [][ /\ StartsCommentWalk =>
                /\ pc = "yield" /\ phase = "tickets" /\ lastKind = TicketKind
                /\ walk'.yielded = walk.yielded
                /\ walk'.started = walk.started + 1
                /\ cwalk'.requests = <<>>
                /\ cwalk'.url =
                    Str(ApiBase \o "tickets/" \o LastTicket.entity_id.s \o "/comments.json")
           /\ walk'.started # walk.started => StartsCommentWalk
           /\ (Emits /\ phase = "tickets") =>
                (cwalk = NoWalk /\ walk.started = Len(walk.yielded))
           /\ (cwalk # NoWalk /\ cwalk' = NoWalk) =>
                (~Truthy(cwalk.url) /\ Len(cwalk.yielded) = Len(cwalk.served))
           /\ cwalk # NoWalk => ticket_id' = ticket_id
         ]_vars

\* the walk of the second ticket is at its second page, the first ticket's
\* walk having ended before the second ticket chunk was delivered
C11_Witness ==
    /\ phase = "comments"
    /\ walk.started = 2
    /\ Len(walk.yielded) = 2
    /\ Len(cwalk.requests) = 2
    /\ cwalk.requests[1] = ApiBase \o "tickets/2/comments.json"

\* C12: a run in which nothing fails (no GET fails, no record lacks its id,
\* the task is not cancelled) and whose consumer keeps pulling and does not
\* close the generator reaches the end of the sequence; the sequence ends
\* in the ticket extractor, when its last page is fetched, every ticket of
\* it was delivered and the comment walk of the last ticket has ended.
C12_Terminates ==
    /\ [](error = "" /\ pc # "closed") => <>(pc = "done")
    /\ [](pc = "done" =>
            /\ phase = "tickets"
            /\ Exhausted(walk)
            /\ cwalk = NoWalk
            /\ walk.started = Len(walk.yielded))

\* the run ended after the comments of the last of two tickets, the
\* tickets and the comments each being on two pages
C12_Witness ==
    /\ pc = "done"
    /\ Len(walk.requests) = 2
    /\ walk.started = 2
    /\ lastKind = CommentKind

\* C14: a run opens one client, when it starts, and none after; the client
\* is not reopened once closed; every extractor is given that client and
\* every GET is issued on it while it is open.
C14_OneClient ==
    /\ [](opened <= 1)
    /\ [](phase # "" => opened = 1)
    /\ [](\A f \in {walk, cwalk} : f # NoWalk => f.client = 1)
    /\ [][ /\ opened' # opened =>
                (pc = "created" /\ client = "none" /\ client' = "open")
           /\ client' = "open" => (client = "open" \/ opened' = opened + 1)
           /\ (Issues(walk, walk') \/ Issues(cwalk, cwalk')) =>
                (client = "open" /\ Active.client = opened)
         ]_vars

\* a comments GET is outstanding on the client the run opened
C14_Witness ==
    /\ phase = "comments"
    /\ inflight # {}
    /\ client = "open"
    /\ cwalk.client = 1
    /\ walk.client = 1
    /\ opened = 1

\* the decimal text of the identifiers of the records projected
DecimalText == (7 :> "7") @@ (42 :> "42")

\* C15: every chunk built from a record has source_name "zendesk", an
\* entity_id that is a string, the decimal text of the record's id, and
\* archived false, whatever the record's other fields are.
C15_ChunkIdentity ==
    chunk # NoChunk =>
        /\ "id" \in DOMAIN rec
        /\ chunk.source_name = Str("zendesk")
        /\ chunk.entity_id.t = "str"
        /\ chunk.entity_id.s = DecimalText[rec["id"].i]
        /\ chunk.entity_id.s # ""
        /\ chunk.archived = Bool(FALSE)

\* a comment chunk built from a record whose id is 42
C15_Witness ==
    /\ chunk.kind = CommentKind
    /\ rec["id"] = Num(42)
    /\ chunk.entity_id = Str("42")

\* C16: a list field (domain_names, tags, custom_fields, attachments) that
\* the record lacks is the empty list in the chunk, and a flag
\* (shared_tickets, shared_comments, suspended, public) that the record
\* lacks is false in the chunk; each chunk type has its fields.
C16_DefaultsForMissing ==
    chunk # NoChunk =>
        /\ \A k \in (DOMAIN chunk) \cap ListFields :
                k \notin DOMAIN rec => chunk[k] = List(0)
        /\ \A k \in (DOMAIN chunk) \cap FlagFields :
                k \notin DOMAIN rec => chunk[k] = Bool(FALSE)
        /\ chunk.kind = OrgKind =>
                {"domain_names", "shared_tickets", "shared_comments"} \subseteq DOMAIN chunk
        /\ chunk.kind = UserKind => "suspended" \in DOMAIN chunk
        /\ chunk.kind = TicketKind => {"tags", "custom_fields"} \subseteq DOMAIN chunk
        /\ chunk.kind = CommentKind => {"attachments", "public"} \subseteq DOMAIN chunk

\* a ticket chunk built from a record without tags and custom_fields
C16_Witness ==
    /\ chunk.kind = TicketKind
    /\ "tags" \notin DOMAIN rec
    /\ "custom_fields" \notin DOMAIN rec
    /\ chunk.tags = List(0)
    /\ chunk.custom_fields = List(0)

\* C17: every GET carries the Authorization header "Bearer " followed by
\* the token the source was created with, which never changes; the first
\* GET of a walk goes to the fixed URL of its extractor (for comments, of
\* its ticket), and each further GET goes to the next_page of the page
\* fetched before it, as that page gave it.
C17_BearerAndLinks ==
    /\ [](\A f \in {walk, cwalk} :
            /\ Len(f.auth) = Len(f.requests)
            /\ \A i \in 1..Len(f.auth) : f.auth[i] = "Bearer " \o access_token)
    /\ [][ /\ access_token' = access_token
           /\ \A fg \in {<<walk, walk'>>, <<cwalk, cwalk'>>} :
                Issues(fg[1], fg[2]) =>
                    /\ Len(fg[2].requests) = Len(fg[1].requests) + 1
                    /\ IF fg[1].requests = <<>>
                       THEN fg[2].requests[1] = FirstUrl(phase, ticket_id)
                       ELSE /\ "next_page" \in DOMAIN fg[1].data
                            /\ fg[1].data["next_page"].t = "str"
                            /\ fg[2].requests[Len(fg[2].requests)] =
                                    fg[1].data["next_page"].s
         ]_vars

\* the second comments page of a ticket is requested with the second token
C17_Witness ==
    /\ phase = "comments"
    /\ pc = "await"
    /\ access_token = "tokenB"
    /\ Len(cwalk.requests) = 2
    /\ cwalk.auth[2] = "Bearer tokenB"
    /\ cwalk.requests[2] = cwalk.data["next_page"].s

\* C18: when a GET has failed, the walk it belongs to has delivered the
\* chunks of all the records of the pages it fetched before, in order, and
\* nothing of the page that failed, which is the one GET without a page;
\* when the GET is one for the comments of a ticket, that ticket's chunk is
\* the ticket chunk delivered last, after the chunks of the tickets served
\* before it, in order, and the chunk delivered last is that ticket's or
\* one of its comments.
C18_PrefixBeforeFailure ==
    GetFailed =>
        /\ pc = "failed"
        /\ Active.requests # <<>>
        /\ Active.requests[Len(Active.requests)] \notin Active.fetched
        /\ Len(Active.requests) = Cardinality(Active.fetched) + 1
        /\ Len(Active.yielded) = Len(Active.served)
        /\ YieldedInOrder(Active, phase, ticket_id)
        /\ phase = "comments" =>
            /\ walk.yielded # <<>>
            /\ LastTicket.kind = TicketKind
            /\ LastTicket.entity_id = ticket_id
            /\ cwalk.requests[Len(cwalk.requests)] \in ChainUrls("comments", ticket_id)
            /\ YieldedInOrder(walk, "tickets", None)
            /\ \A i \in 1..Len(cwalk.yielded) : cwalk.yielded[i].ticket_id = ticket_id
            /\ lastKind = IF cwalk.yielded # <<>> THEN CommentKind ELSE TicketKind
        /\ (phase \in {"organizations", "users"} /\ walk.yielded # <<>>) =>
            lastKind = walk.yielded[Len(walk.yielded)].kind
        /\ (phase = "tickets" /\ walk.yielded # <<>>) =>
            lastKind \in {TicketKind, CommentKind}

\* the second comments page of the second ticket failed with a 500 after
\* the two comments of the first page were delivered
C18_Witness ==
    /\ pc = "failed"
    /\ status = 500
    /\ phase = "comments"
    /\ Len(walk.yielded) = 2
    /\ Len(cwalk.requests) = 2
    /\ Len(cwalk.yielded) = 2
    /\ Len(cwalk.served) = 2

\* the tickets of the tickets page fetched last
TicketsOfPage == Records(walk, "tickets")

\* C19: a further tickets page is requested only when every ticket of the
\* page before was delivered and the comment walk of each has ended; a
\* comments GET is one for the ticket of the current tickets page that the
\* ticket extractor's loop stands at, the tickets being taken in the order
\* of the page; and the loop moves to the next ticket only when the
\* comment walk is exhausted.
C19_CommentsBeforeNextTicketPage ==
    [][ /\ (Issues(walk, walk') /\ phase = "tickets") =>
            /\ ~Issues(cwalk, cwalk')
            /\ cwalk = NoWalk
            /\ Len(walk.yielded) = Len(walk.served)
            /\ walk.started = Len(walk.yielded)
            /\ walk.requests # <<>> => walk.idx = Len(TicketsOfPage) + 1
        /\ Issues(cwalk, cwalk') =>
            /\ phase = "comments"
            /\ walk.idx \in 1..Len(TicketsOfPage)
            /\ ticket_id.s = IntToStr(TicketsOfPage[walk.idx]["id"].i)
            /\ cwalk'.requests[Len(cwalk'.requests)] \in ChainUrls("comments", ticket_id)
            /\ walk.started = Len(walk.served) - Len(TicketsOfPage) + walk.idx
        /\ (phase \in {"tickets", "comments"} /\ walk'.idx = walk.idx + 1) =>
            /\ phase' = "tickets"
            /\ (phase = "comments" \/ walk.idx = 0)
            /\ phase = "comments" => Exhausted(cwalk)
      ]_vars

\* the second tickets page is requested after the comment walks of the two
\* tickets of the first page
C19_Witness ==
    /\ phase = "tickets"
    /\ pc = "await"
    /\ Len(walk.requests) = 2
    /\ Len(walk.yielded) = 2
    /\ walk.started = 2
    /\ lastKind = CommentKind

\* the for loop of the running extractor stands at a record without id
AtRecordWithoutId ==
    /\ pc = "for"
    /\ ArrayKey(phase) \in DOMAIN Active.data
    /\ Active.idx \in 1..Len(Active.data[ArrayKey(phase)])
    /\ "id" \notin DOMAIN Active.data[ArrayKey(phase)][Active.idx]

\* C20: a record without id fails the run at that record: the step at
\* such a record raises KeyError, delivers nothing and closes the client;
\* the chunks delivered by the walk are those of the records served before
\* it, those of its own page included, no record without id is ever passed
\* over, and after the failure nothing happens any more (no chunk, no GET).
C20_MissingIdFailsFast ==
    /\ [](\A f \in {walk, cwalk} :
            \A i \in 1..Len(f.yielded) :
                i <= Len(f.served) /\ "id" \in DOMAIN f.served[i])
    /\ [](error = "KeyError" =>
            /\ pc = "failed"
            /\ client = "closed"
            /\ inflight = {}
            /\ Len(Active.yielded) < Len(Active.served)
            /\ "id" \notin DOMAIN Active.served[Len(Active.yielded) + 1]
            /\ YieldedInOrder(Active, phase, ticket_id)
            /\ Len(Active.requests) = Cardinality(Active.fetched))
    /\ [][ /\ AtRecordWithoutId =>
                /\ pc' = "failed"
                /\ error' = "KeyError"
                /\ client' = "closed"
                /\ walk'.yielded = walk.yielded /\ cwalk'.yielded = cwalk.yielded
                /\ walk'.requests = walk.requests /\ cwalk'.requests = cwalk.requests
                /\ lastKind' = lastKind
           /\ error # "KeyError"
         ]_vars

\* the second comment of a page has no id: the first one was delivered and
\* the run has failed
C20_Witness ==
    /\ error = "KeyError"
    /\ phase = "comments"
    /\ client = "closed"
    /\ Len(cwalk.yielded) = 1
    /\ Len(cwalk.served) = 2
    /\ cwalk.idx = 2

====
